---- MODULE Spec2Model ----
(***************************************************************************)
(* Model of ImageService (backend/services/image.py): the two-phase image  *)
(* generation pipeline generate_images, the per-page retry loop            *)
(* _generate_single_image, and the retry entry points retry_single_image   *)
(* and regenerate_image, all working on one entry of _task_states.         *)
(*                                                                         *)
(* generate_images is a Python generator: every action G_* below is the    *)
(* code that runs between two yields (or up to a blocking call).  The      *)
(* calls of _generate_single_image are records of `call`, one per page     *)
(* index of the run plus one for the thread that serves a retry request;   *)
(* their attempts interleave freely with everything else.                  *)
(***************************************************************************)
EXTENDS Integers, Sequences, FiniteSets, TLC

\* ---------------------------------------------------------------- bounds
MaxPages == 3
MaxRetryCalls == 1
MaxRequests == 2
MaxRetryPages == 2
MaxPoolPages == 17

\* ------------------------------------------------------ program constants
MAX_CONCURRENT == 15
AUTO_RETRY_COUNT == 3
CoverMaxKb == 200

\* ------------------------------------------------------------ data model
PageTypes == {"cover", "content"}
NoPage == [index |-> 0, type |-> "none"]
NoImage == [page |-> 0, kb |-> 0]
SmallKb == 100
LargeKb == 300
ErrMsg == "provider failure"
TaskId == "task_a"
\* the call slot of the thread that serves a retry request
RetryId == MaxPages + 1
ForeignPage == [index |-> MaxPages + 1, type |-> "content"]

\* The page lists given to generate_images: index = position (1-based,
\* unique), any mix of types, the empty list included.
PageLists ==
    UNION { { [i \in 1..n |-> [index |-> i, type |-> ty[i]]] : ty \in [1..n -> PageTypes] }
            : n \in 0..MaxPages }

\* the bytes generator.generate_image returns for a page: a page of type cover
\* gets an image above the 200 KB budget, any other page one below it
GeneratedImage(page) ==
    [page |-> page.index, kb |-> IF page.type = "cover" THEN LargeKb ELSE SmallKb]

\* f"{index}.png"
Filename(index) == <<index, ".png">>

\* compress_image(image_data, max_size_kb): re-encodes below the byte budget
compress_image(image, max_size_kb) ==
    IF image.kb <= max_size_kb THEN image ELSE [image EXCEPT !.kb = max_size_kb]

\* the other arguments of generate_images
FullOutline == "outline"
UserTopic == "topic"
UserImages == << [page |-> 0, kb |-> LargeKb] >>

\* [compress_image(img, max_size_kb=200) for img in user_images]
CompressAll(images, max_size_kb) ==
    [j \in 1..Len(images) |-> compress_image(images[j], max_size_kb)]

\* user_images=None, the default of _generate_single_image
NoUserImages == <<>>
\* the local compressed_user_images of generate_images
compressed_user_images == CompressAll(UserImages, CoverMaxKb)

\* dict operations
EmptyDict == [x \in {} |-> 0]
Put(d, key, v) == [x \in DOMAIN d \cup {key} |-> IF x = key THEN v ELSE d[x]]
Del(d, key) == [x \in DOMAIN d \ {key} |-> d[x]]

Indices(ps) == { ps[j].index : j \in 1..Len(ps) }

\* --------------------------------------------------------------- state
VARIABLES
    pages,             \* argument of generate_images
    high_concurrency,  \* provider_config['high_concurrency']
    task_state,        \* _task_states[task_id], NoState when absent
    pc,                \* position of the generate_images generator
    cover_page, other_pages, generated_images, failed_pages,
    cover_image_data,  \* locals of generate_images
    k,                 \* loop position in other_pages
    pending,           \* futures as_completed has not yielded yet
    events,            \* the events yielded so far by generate_images
    call,              \* the _generate_single_image invocations
    retry,             \* the thread serving retry_single_image
    retries,           \* number of retry requests served so far
    one,               \* one _generate_single_image invocation, step by step
    other_state,       \* _task_states[other task id], NoState when absent
    requests,          \* number of further requests made to the service
    last_request,      \* the last of them
    rf,                \* locals and position of the retry_failed_images generator
    rf_events,         \* the events yielded so far by retry_failed_images
    pool,              \* one ThreadPoolExecutor, by the number of calls in each stage
    uploads,           \* the originals uploaded so far: task_id, index and object key
    catalog,           \* the History record of the task and the files of its folder
    service_instance,  \* the global _service_instance: "none" or the ImageService
    refs,              \* one call of the image_api generator and its reference list
    sse,               \* the generator behind one POST /outline response
    store,             \* the storage service, its bucket and the pages saved through it
    two                \* two tasks served at once by one ImageService

vars == <<pages, high_concurrency, task_state, pc, cover_page, other_pages,
          generated_images, failed_pages, cover_image_data, k, pending,
          events, call, retry, retries, one, other_state, requests, last_request,
          rf, rf_events, pool, uploads, catalog, service_instance, refs, sse, store, two>>

inputs == <<pages, high_concurrency>>
genLocals == <<cover_page, other_pages, generated_images, failed_pages, cover_image_data, k, pending>>
retryVars == <<retry, retries>>
\* what generate_images and retry_single_image never touch
reqVars == <<other_state, requests, last_request>>
rfVars == <<rf, rf_events>>
\* the parts of the system beside the image service
beside == <<refs, sse, store, two>>
aside == <<catalog, service_instance, beside>>
outside == <<one, pool, uploads, aside, reqVars, rfVars>>

NoState == [exists |-> FALSE]
\* the record generate_images stores in _task_states[task_id]
NewTaskState(ps, full_outline, user_images, user_topic) ==
    [exists |-> TRUE, pages |-> ps, generated |-> EmptyDict, failed |-> EmptyDict,
     cover_image |-> NoImage, full_outline |-> full_outline,
     user_images |-> CompressAll(user_images, CoverMaxKb), user_topic |-> user_topic]
NoCall == [st |-> "none", page |-> NoPage, ref |-> NoImage, user_images |-> NoUserImages,
           attempt |-> 0, success |-> FALSE, error |-> "", data |-> NoImage]
\* no retry_single_image call has returned yet
NoResult == [success |-> FALSE, index |-> 0]
\* was: in which map of the task state the index of the request was at entry
NoRetry == [st |-> "idle", was |-> "none", result |-> NoResult]
NoRequest == [op |-> "none", task_id |-> "none"]
\* the entry of a task that was generated earlier with another task id
OtherTaskState ==
    [NewTaskState(<< [index |-> 1, type |-> "cover"] >>, FullOutline, UserImages, UserTopic)
        EXCEPT !.generated = Put(EmptyDict, 1, Filename(1)),
               !.cover_image = [page |-> 1, kb |-> CoverMaxKb]]
CallIds == 1..RetryId
NoCatalog == [record |-> FALSE, page_count |-> 0, status |-> "none", generated |-> {},
              dir |-> {}, synced |-> FALSE]
NoPool == [st |-> "none", by |-> "none", queued |-> 0, running |-> 0, returned |-> 0]
NoRF == [pc |-> "idle", pages |-> <<>>, reference_image |-> NoImage, total |-> 0,
         success_count |-> 0, failed_count |-> 0, pending |-> {}]
\* the response generator of generate_outline before its first step
NoStream == [pc |-> "start", future |-> "none", images |-> "unset", frames |-> <<>>]
\* the storage service before StorageService() ran, and an empty bucket
NoStore == [s3_client |-> "unset", objects |-> {}, st |-> "idle", index |-> 0, attempt |-> 0,
            generated |-> {}, failed |-> {}, completed |-> {}]
\* one ImageService after __init__ (current_task_dir = None, no task
\* states) and two request threads that have not entered it yet
NoSlot == [st |-> "idle", task_id |-> <<>>, index |-> 0]
NoTwo == [current_task_dir |-> <<>>, slot |-> [t \in {"A", "B"} |-> NoSlot],
          uploads |-> {}, registry |-> {}]
\* no image_api call was made yet
NoRefs == [st |-> "idle", user_images |-> <<>>, reference_image |-> NoImage,
           none |-> FALSE, reference_images |-> <<>>]
NoOne == [st |-> "idle", page |-> NoPage, ref |-> NoImage, attempt |-> 0,
          image_data |-> NoImage, log |-> <<>>, result |-> "none"]

Init ==
    /\ pages \in PageLists
    /\ high_concurrency \in BOOLEAN
    /\ task_state = NoState
    /\ pc = "start"
    /\ cover_page = NoPage
    /\ other_pages = <<>>
    /\ generated_images = <<>>
    /\ failed_pages = <<>>
    /\ cover_image_data = NoImage
    /\ k = 0
    /\ pending = {}
    /\ events = <<>>
    /\ call = [c \in CallIds |-> NoCall]
    /\ retry = NoRetry
    /\ retries = 0
    /\ one = NoOne
    /\ other_state = OtherTaskState
    /\ requests = 0
    /\ last_request = NoRequest
    /\ rf = NoRF
    /\ rf_events = <<>>
    /\ pool = NoPool
    /\ uploads = {}
    /\ catalog = NoCatalog
    /\ service_instance = "ImageService"
    /\ refs = NoRefs
    /\ sse = NoStream
    /\ store = NoStore
    /\ two = NoTwo

\* ------------------------------------------------- _generate_single_image
\* entry of _generate_single_image(page, task_id, reference_image, 0, ...)
StartCall(page, reference_image, user_images) ==
    [NoCall EXCEPT !.st = "running", !.page = page, !.ref = reference_image,
                   !.user_images = user_images]

\* executor.submit(self._generate_single_image, page, task_id, reference_image, ...)
SubmitCall(page, reference_image, user_images) ==
    [NoCall EXCEPT !.st = "queued", !.page = page, !.ref = reference_image,
                   !.user_images = user_images]

\* one attempt of the retry loop succeeds: generator returned bytes and the
\* upload went through; the call returns (index, True, filename, None, image_data)
AttemptOk(c) ==
    /\ call[c].st = "running"
    /\ call' = [call EXCEPT ![c].st = "returned", ![c].success = TRUE,
                            ![c].data = GeneratedImage(call[c].page)]

\* variant: the attempt loop has no last attempt, a failing call starts over
AttemptFail_NoLimit(c) ==
    /\ call[c].st = "running"
    /\ call' = [call EXCEPT ![c].attempt = (@ + 1) % AUTO_RETRY_COUNT]

\* one attempt fails (exception or empty data): sleep 2^attempt and go on,
\* or return (index, False, None, error_msg, None) after the last attempt
AttemptFail(c) ==
    /\ call[c].st = "running"
    /\ call' = IF call[c].attempt < AUTO_RETRY_COUNT - 1
               THEN [call EXCEPT ![c].attempt = @ + 1]
               ELSE [call EXCEPT ![c].st = "returned", ![c].success = FALSE,
                                 ![c].error = ErrMsg]

Attempt(c) ==
    /\ \/ AttemptOk(c)
       \/ AttemptFail(c)
    /\ UNCHANGED <<outside, inputs, task_state, pc, genLocals, events, retryVars>>

\* a pool thread takes a submitted call; at most MAX_CONCURRENT run at once
PoolRunning == { c \in CallIds : c # RetryId /\ call[c].st = "running" }

W_Start(c) ==
    /\ call[c].st = "queued"
    /\ Cardinality(PoolRunning) < MAX_CONCURRENT
    /\ call' = [call EXCEPT ![c].st = "running"]
    /\ UNCHANGED <<outside, inputs, task_state, pc, genLocals, events, retryVars>>

\* ------------------------------------------------------- generate_images
\* the loop that picks the cover page and the other pages
HasCover(ps) == \E j \in 1..Len(ps) : ps[j].type = "cover"
LastCover(ps) ==
    ps[CHOOSE j \in 1..Len(ps) :
          /\ ps[j].type = "cover"
          /\ \A j2 \in (j+1)..Len(ps) : ps[j2].type # "cover"]
IsOther(p) == p.type # "cover"

PartitionCover(ps) ==
    IF HasCover(ps) THEN LastCover(ps)
    ELSE IF Len(ps) > 0 THEN ps[1] ELSE NoPage

PartitionOthers(ps) ==
    IF HasCover(ps) THEN SelectSeq(ps, IsOther)
    ELSE IF Len(ps) > 0 THEN Tail(ps) ELSE <<>>

ProgressCoverEvent(page, total) ==
    [event |-> "progress", index |-> page.index, status |-> "generating",
     current |-> 1, total |-> total, phase |-> "cover"]
BatchStartEvent(current, total) ==
    [event |-> "progress", status |-> "batch_start", current |-> current,
     total |-> total, phase |-> "content"]
ProgressEvent(page, current, total) ==
    [event |-> "progress", index |-> page.index, status |-> "generating",
     current |-> current, total |-> total, phase |-> "content"]
CompleteEvent(index, phase) ==
    [event |-> "complete", index |-> index, status |-> "done", phase |-> phase]
ErrorEvent(index, message, phase) ==
    [event |-> "error", index |-> index, status |-> "error", message |-> message,
     retryable |-> TRUE, phase |-> phase]
FailedIndices(fp) == [j \in 1..Len(fp) |-> fp[j].index]
FinishEvent(gi, fp, total) ==
    [event |-> "finish", success |-> (Len(fp) = 0), images |-> gi, total |-> total,
     completed |-> Len(gi), failed |-> Len(fp), failed_indices |-> FailedIndices(fp)]

\* error or "Unknown error"
OrUnknown(error) == IF error = "" THEN "Unknown error" ELSE error

\* from the start of the second phase to its first yield
Phase2(others, gi, fp) ==
    IF others # <<>>
    THEN /\ events' = Append(events, BatchStartEvent(Len(gi), Len(pages)))
         /\ pc' = IF high_concurrency THEN "par_submit" ELSE "ser_progress"
    ELSE /\ events' = Append(events, FinishEvent(gi, fp, Len(pages)))
         /\ pc' = "done"

\* G_Start with the cover phase left out: the run goes straight to phase two
G_Start_SkipCover ==
    /\ pc = "start"
    /\ task_state' = NewTaskState(pages, FullOutline, UserImages, UserTopic)
    /\ cover_page' = PartitionCover(pages)
    /\ other_pages' = PartitionOthers(pages)
    /\ Phase2(other_pages', generated_images, failed_pages)
    /\ UNCHANGED <<outside, inputs, generated_images, failed_pages, cover_image_data, k,
                   pending, call, retryVars>>

\* first next(): task state created, pages partitioned, first event yielded
G_Start ==
    /\ pc = "start"
    /\ task_state' = NewTaskState(pages, FullOutline, UserImages, UserTopic)
    /\ cover_page' = PartitionCover(pages)
    /\ other_pages' = PartitionOthers(pages)
    /\ IF cover_page' # NoPage
       THEN /\ events' = Append(events, ProgressCoverEvent(cover_page', Len(pages)))
            /\ pc' = "cover_call"
       ELSE Phase2(other_pages', generated_images, failed_pages)
    /\ UNCHANGED <<outside, inputs, generated_images, failed_pages, cover_image_data, k,
                   pending, call, retryVars>>

\* G_CoverCall that does not wait for the cover call to return
G_CoverCall_NoWait ==
    /\ pc = "cover_call"
    /\ call' = [call EXCEPT ![cover_page.index] = StartCall(cover_page, NoImage, compressed_user_images)]
    /\ pc' = "phase2"
    /\ UNCHANGED <<outside, inputs, task_state, genLocals, events, retryVars>>

\* the generator is resumed and calls _generate_single_image for the cover
G_CoverCall ==
    /\ pc = "cover_call"
    /\ call' = [call EXCEPT ![cover_page.index] = StartCall(cover_page, NoImage, compressed_user_images)]
    /\ pc' = "cover_wait"
    /\ UNCHANGED <<outside, inputs, task_state, genLocals, events, retryVars>>

\* the cover call has returned: record the outcome and yield it
G_CoverResult ==
    /\ pc = "cover_wait"
    /\ LET r == call[cover_page.index]
           index == r.page.index
       IN /\ r.st = "returned"
          /\ IF r.success /\ r.data # NoImage
             THEN /\ generated_images' = Append(generated_images, Filename(index))
                  /\ cover_image_data' = compress_image(r.data, CoverMaxKb)
                  /\ task_state' = [task_state EXCEPT
                         !.generated = Put(@, index, Filename(index)),
                         !.cover_image = cover_image_data']
                  /\ events' = Append(events, CompleteEvent(index, "cover"))
                  /\ UNCHANGED failed_pages
             ELSE /\ failed_pages' = Append(failed_pages, cover_page)
                  /\ task_state' = [task_state EXCEPT
                         !.failed = Put(@, index, OrUnknown(r.error))]
                  /\ events' = Append(events, ErrorEvent(index, r.error, "cover"))
                  /\ UNCHANGED <<generated_images, cover_image_data>>
    /\ pc' = "phase2"
    /\ UNCHANGED <<outside, inputs, cover_page, other_pages, k, pending, call, retryVars>>

\* G_Phase2 that gives up the content pages when the cover has failed
G_Phase2_AbortOnCoverFailure ==
    /\ pc = "phase2"
    /\ IF failed_pages # <<>>
       THEN /\ events' = Append(events, FinishEvent(generated_images, failed_pages, Len(pages)))
            /\ pc' = "done"
       ELSE Phase2(other_pages, generated_images, failed_pages)
    /\ UNCHANGED <<outside, inputs, task_state, genLocals, call, retryVars>>

\* resumed after the cover outcome: batch_start, or finish when no other page
G_Phase2 ==
    /\ pc = "phase2"
    /\ Phase2(other_pages, generated_images, failed_pages)
    /\ UNCHANGED <<outside, inputs, task_state, genLocals, call, retryVars>>

\* outcome of a content page, the same code in both modes
ContentOutcome(r) ==
    LET index == r.page.index
    IN IF r.success
       THEN /\ generated_images' = Append(generated_images, Filename(index))
            /\ task_state' = [task_state EXCEPT !.generated = Put(@, index, Filename(index))]
            /\ events' = Append(events, CompleteEvent(index, "content"))
            /\ UNCHANGED failed_pages
       ELSE /\ failed_pages' = Append(failed_pages, r.page)
            /\ task_state' = [task_state EXCEPT !.failed = Put(@, index, r.error)]
            /\ events' = Append(events, ErrorEvent(index, r.error, "content"))
            /\ UNCHANGED generated_images

\* parallel mode: all other pages are submitted to the pool, then the first
\* progress event is yielded
G_ParSubmit ==
    /\ pc = "par_submit"
    /\ call' = [c \in CallIds |->
                  IF c \in Indices(other_pages)
                  THEN SubmitCall(CHOOSE p \in {other_pages[j] : j \in 1..Len(other_pages)} : p.index = c,
                                  cover_image_data, compressed_user_images)
                  ELSE call[c]]
    /\ pending' = Indices(other_pages)
    /\ events' = Append(events, ProgressEvent(other_pages[1], Len(generated_images) + 1, Len(pages)))
    /\ k' = 1
    /\ pc' = "par_progress"
    /\ UNCHANGED <<outside, inputs, task_state, cover_page, other_pages, generated_images,
                   failed_pages, cover_image_data, retryVars>>

\* the remaining progress events of the parallel mode
G_ParProgress ==
    /\ pc = "par_progress"
    /\ k < Len(other_pages)
    /\ events' = Append(events, ProgressEvent(other_pages[k + 1], Len(generated_images) + 1, Len(pages)))
    /\ k' = k + 1
    /\ UNCHANGED <<outside, inputs, task_state, pc, cover_page, other_pages, generated_images,
                   failed_pages, cover_image_data, pending, call, retryVars>>

\* G_ParCollect that hands over a finished future while progress events
\* are still to be yielded
G_ParCollect_Early(c) ==
    /\ pc = "par_progress"
    /\ c \in pending
    /\ call[c].st = "returned"
    /\ ContentOutcome(call[c])
    /\ pending' = pending \ {c}
    /\ UNCHANGED <<outside, inputs, pc, cover_page, other_pages, cover_image_data, k, call, retryVars>>

\* as_completed hands over a finished future: record and yield its outcome
G_ParCollect(c) ==
    /\ pc = "par_progress"
    /\ k = Len(other_pages)
    /\ c \in pending
    /\ call[c].st = "returned"
    /\ ContentOutcome(call[c])
    /\ pending' = pending \ {c}
    /\ UNCHANGED <<outside, inputs, pc, cover_page, other_pages, cover_image_data, k, call, retryVars>>

\* G_ParFinish that ends the run without yielding finish
G_ParFinish_NoFinish ==
    /\ pc = "par_progress"
    /\ k = Len(other_pages)
    /\ pending = {}
    /\ pc' = "done"
    /\ UNCHANGED <<outside, inputs, task_state, genLocals, events, call, retryVars>>

\* as_completed is exhausted, the pool is shut down, finish is yielded
G_ParFinish ==
    /\ pc = "par_progress"
    /\ k = Len(other_pages)
    /\ pending = {}
    /\ events' = Append(events, FinishEvent(generated_images, failed_pages, Len(pages)))
    /\ pc' = "done"
    /\ UNCHANGED <<outside, inputs, task_state, genLocals, call, retryVars>>

\* G_SerProgress that goes on to the call without yielding progress
G_SerProgress_NoYield ==
    /\ pc = "ser_progress"
    /\ k < Len(other_pages)
    /\ pc' = "ser_call"
    /\ UNCHANGED <<outside, inputs, task_state, genLocals, events, call, retryVars>>

\* serial mode: progress event of the next page
G_SerProgress ==
    /\ pc = "ser_progress"
    /\ k < Len(other_pages)
    /\ events' = Append(events, ProgressEvent(other_pages[k + 1], Len(generated_images) + 1, Len(pages)))
    /\ pc' = "ser_call"
    /\ UNCHANGED <<outside, inputs, task_state, genLocals, call, retryVars>>

\* G_SerCall that passes no reference image
G_SerCall_NoRef ==
    /\ pc = "ser_call"
    /\ call' = [call EXCEPT ![other_pages[k + 1].index] = StartCall(other_pages[k + 1], NoImage, compressed_user_images)]
    /\ pc' = "ser_wait"
    /\ UNCHANGED <<outside, inputs, task_state, genLocals, events, retryVars>>

\* G_SerCall that also starts the call of the page after this one
G_SerCall_Prefetch ==
    /\ pc = "ser_call"
    /\ call' = [c \in CallIds |->
                  IF c = other_pages[k + 1].index
                  THEN StartCall(other_pages[k + 1], cover_image_data, compressed_user_images)
                  ELSE IF k + 2 <= Len(other_pages) /\ c = other_pages[k + 2].index
                       THEN StartCall(other_pages[k + 2], cover_image_data, compressed_user_images)
                       ELSE call[c]]
    /\ pc' = "ser_wait"
    /\ UNCHANGED <<outside, inputs, task_state, genLocals, events, retryVars>>

\* the generator is resumed after the progress event and calls
\* _generate_single_image for the page
G_SerCall ==
    /\ pc = "ser_call"
    /\ call' = [call EXCEPT ![other_pages[k + 1].index] = StartCall(other_pages[k + 1], cover_image_data, compressed_user_images)]
    /\ pc' = "ser_wait"
    /\ UNCHANGED <<outside, inputs, task_state, genLocals, events, retryVars>>

G_SerResult ==
    /\ pc = "ser_wait"
    /\ call[other_pages[k + 1].index].st = "returned"
    /\ ContentOutcome(call[other_pages[k + 1].index])
    /\ k' = k + 1
    /\ pc' = "ser_progress"
    /\ UNCHANGED <<outside, inputs, cover_page, other_pages, cover_image_data, pending, call, retryVars>>

G_SerFinish ==
    /\ pc = "ser_progress"
    /\ k = Len(other_pages)
    /\ events' = Append(events, FinishEvent(generated_images, failed_pages, Len(pages)))
    /\ pc' = "done"
    /\ UNCHANGED <<outside, inputs, task_state, genLocals, call, retryVars>>

\* ---------------------------------------------------- retry_single_image
\* the pages a retry request may name: a page of the task, or one that is not
RetryArgs == { pages[j] : j \in 1..Len(pages) } \cup {ForeignPage}

\* in which of the two maps of a task state an index is
WhereIs(ts, index) ==
    IF ~ts.exists THEN "no task"
    ELSE IF index \in DOMAIN ts.failed
         THEN IF index \in DOMAIN ts.generated THEN "both" ELSE "failed"
         ELSE IF index \in DOMAIN ts.generated THEN "generated" ELSE "neither"

\* entry: the reference is read from the task state, the call starts
retry_single_image(page, use_reference) ==
    /\ retry.st = "idle"
    /\ retries < MaxRetryCalls
    /\ LET reference_image == IF task_state.exists /\ use_reference
                              THEN task_state.cover_image ELSE NoImage
           user_images == IF task_state.exists THEN task_state.user_images ELSE NoUserImages
       IN call' = [call EXCEPT ![RetryId] = StartCall(page, reference_image, user_images)]
    /\ retry' = [NoRetry EXCEPT !.st = "running", !.was = WhereIs(task_state, page.index)]
    /\ retries' = retries + 1
    /\ UNCHANGED <<outside, inputs, task_state, pc, genLocals, events>>

regenerate_image(page, use_reference) == retry_single_image(page, use_reference)

\* the dict retry_single_image returns
ImageUrl(task_id, filename) == <<"/api/images/", task_id, "/", filename>>
RetryResult(r) ==
    IF r.success
    THEN [success |-> TRUE, index |-> r.page.index,
          image_url |-> ImageUrl(TaskId, Filename(r.page.index))]
    ELSE [success |-> FALSE, index |-> r.page.index, error |-> r.error, retryable |-> TRUE]

\* variant: a successful retry of a task without state makes a state for it
R_Finish_CreateState ==
    /\ retry.st = "running"
    /\ call[RetryId].st = "returned"
    /\ LET r == call[RetryId]
           index == r.page.index
           ts == IF task_state.exists THEN task_state
                 ELSE NewTaskState(pages, FullOutline, NoUserImages, UserTopic)
       IN /\ task_state' = IF r.success
                           THEN [ts EXCEPT !.generated = Put(@, index, Filename(index)),
                                           !.failed = Del(@, index)]
                           ELSE task_state
          /\ retry' = [retry EXCEPT !.st = "idle", !.result = RetryResult(r)]
    /\ call' = [call EXCEPT ![RetryId] = NoCall]
    /\ UNCHANGED <<outside, inputs, pc, genLocals, events, retries>>

\* variant: a successful retry leaves the index in the failed map
R_Finish_NoDelete ==
    /\ retry.st = "running"
    /\ call[RetryId].st = "returned"
    /\ LET r == call[RetryId]
           index == r.page.index
       IN /\ task_state' = IF r.success /\ task_state.exists
                           THEN [task_state EXCEPT !.generated = Put(@, index, Filename(index))]
                           ELSE task_state
          /\ retry' = [retry EXCEPT !.st = "idle", !.result = RetryResult(r)]
    /\ call' = [call EXCEPT ![RetryId] = NoCall]
    /\ UNCHANGED <<outside, inputs, pc, genLocals, events, retries>>

\* variant: a failed retry records the index in the failed map
R_Finish_RecordFailure ==
    /\ retry.st = "running"
    /\ call[RetryId].st = "returned"
    /\ LET r == call[RetryId]
           index == r.page.index
       IN /\ task_state' = IF ~task_state.exists THEN task_state
                           ELSE IF r.success
                           THEN [task_state EXCEPT !.generated = Put(@, index, Filename(index)),
                                                   !.failed = Del(@, index)]
                           ELSE [task_state EXCEPT !.failed = Put(@, index, r.error)]
          /\ retry' = [retry EXCEPT !.st = "idle", !.result = RetryResult(r)]
    /\ call' = [call EXCEPT ![RetryId] = NoCall]
    /\ UNCHANGED <<outside, inputs, pc, genLocals, events, retries>>

\* variant: a successful retry of the cover page also replaces cover_image
R_Finish_UpdateCover ==
    /\ retry.st = "running"
    /\ call[RetryId].st = "returned"
    /\ LET r == call[RetryId]
           index == r.page.index
       IN /\ task_state' = IF r.success /\ task_state.exists
                           THEN [task_state EXCEPT
                                    !.generated = Put(@, index, Filename(index)),
                                    !.failed = Del(@, index),
                                    !.cover_image = IF r.page = PartitionCover(pages)
                                                    THEN compress_image(r.data, CoverMaxKb)
                                                    ELSE @]
                           ELSE task_state
          /\ retry' = [retry EXCEPT !.st = "idle", !.result = RetryResult(r)]
    /\ call' = [call EXCEPT ![RetryId] = NoCall]
    /\ UNCHANGED <<outside, inputs, pc, genLocals, events, retries>>

\* the call has returned: on success the task state is updated
R_Finish ==
    /\ retry.st = "running"
    /\ call[RetryId].st = "returned"
    /\ LET r == call[RetryId]
           index == r.page.index
       IN /\ task_state' = IF r.success /\ task_state.exists
                           THEN [task_state EXCEPT !.generated = Put(@, index, Filename(index)),
                                                   !.failed = Del(@, index)]
                           ELSE task_state
          /\ retry' = [retry EXCEPT !.st = "idle", !.result = RetryResult(r)]
    /\ call' = [call EXCEPT ![RetryId] = NoCall]
    /\ UNCHANGED <<outside, inputs, pc, genLocals, events, retries>>

\* ------------------------- _generate_single_image, one call step by step
ThumbMaxKb == 50
OnePages == { [index |-> 1, type |-> "cover"], [index |-> 2, type |-> "content"] }
OneRefs == { NoImage, [page |-> 1, kb |-> CoverMaxKb] }

\* object_name = f"{task_id}/{filename}" and f"{task_id}/thumb_{filename}"
ObjectName(task_id, filename) == <<task_id, "/", filename>>
ThumbObjectName(task_id, filename) == <<task_id, "/", "thumb_", filename>>

\* wait_time = 2 ** attempt
Backoff_Doubled(attempt) == 2 ^ (attempt + 1)
Backoff(attempt) == 2 ^ attempt

OneVarsUnchanged ==
    UNCHANGED <<inputs, task_state, pc, genLocals, events, call, retryVars, reqVars, rfVars, pool, uploads, aside>>

\* entry of _generate_single_image(page, task_id, reference_image, 0, ...)
O_Call(page, reference_image) ==
    /\ one.st = "idle"
    /\ one' = [NoOne EXCEPT !.st = "generate", !.page = page, !.ref = reference_image]
    /\ OneVarsUnchanged

\* the except branch with the retry bound off by one
Except_OneMore(o, step, error_msg) ==
    IF o.attempt < AUTO_RETRY_COUNT
    THEN [o EXCEPT !.st = "generate", !.attempt = @ + 1, !.image_data = NoImage,
                   !.log = @ \o <<step, [op |-> "sleep", attempt |-> o.attempt,
                                         secs |-> Backoff(o.attempt)]>>]
    ELSE [o EXCEPT !.st = "returned", !.image_data = NoImage,
                   !.log = Append(@, step),
                   !.result = [index |-> o.page.index, success |-> FALSE, filename |-> "none",
                               error |-> error_msg, image_data |-> NoImage]]

\* the except branch: the failed step is logged, then either sleep and the
\* next attempt, or the failure tuple after the last attempt
Except(o, step, error_msg) ==
    IF o.attempt < AUTO_RETRY_COUNT - 1
    THEN [o EXCEPT !.st = "generate", !.attempt = @ + 1, !.image_data = NoImage,
                   !.log = @ \o <<step, [op |-> "sleep", attempt |-> o.attempt,
                                         secs |-> Backoff(o.attempt)]>>]
    ELSE [o EXCEPT !.st = "returned", !.image_data = NoImage,
                   !.log = Append(@, step),
                   !.result = [index |-> o.page.index, success |-> FALSE, filename |-> "none",
                               error |-> error_msg, image_data |-> NoImage]]

\* self.generator.generate_image(...): bytes, empty data, or an exception
O_Generate(out) ==
    /\ one.st = "generate"
    /\ LET step == [op |-> "generate", attempt |-> one.attempt, out |-> out]
       IN one' = CASE out = "bytes" ->
                        [one EXCEPT !.st = "upload", !.log = Append(@, step),
                                    !.image_data = GeneratedImage(one.page)]
                   [] out = "empty" -> Except(one, step, "empty data")
                   [] OTHER -> Except(one, step, ErrMsg)
    /\ OneVarsUnchanged

\* _save_image: storage_service.upload_file(image_data, object_name, 'image/png')
O_UploadOriginal(out) ==
    /\ one.st = "upload"
    /\ LET step == [op |-> "upload", attempt |-> one.attempt, out |-> out,
                    object_name |-> ObjectName(TaskId, Filename(one.page.index)),
                    content_type |-> "image/png", data |-> one.image_data]
       IN one' = IF out = "ok"
                 THEN [one EXCEPT !.st = "thumbnail", !.log = Append(@, step)]
                 ELSE Except(one, step, "upload failed")
    /\ OneVarsUnchanged

\* _save_image: the thumbnail is compressed and uploaded; then the call
\* returns (index, True, filename, None, image_data)
O_UploadThumbnail(out) ==
    /\ one.st = "thumbnail"
    /\ LET step == [op |-> "upload", attempt |-> one.attempt, out |-> out,
                    object_name |-> ThumbObjectName(TaskId, Filename(one.page.index)),
                    content_type |-> "image/jpeg",
                    data |-> compress_image(one.image_data, ThumbMaxKb)]
       IN one' = IF out = "ok"
                 THEN [one EXCEPT !.st = "returned", !.log = Append(@, step),
                          !.result = [index |-> one.page.index, success |-> TRUE,
                                      filename |-> Filename(one.page.index), error |-> "none",
                                      image_data |-> one.image_data]]
                 ELSE Except(one, step, "upload failed")
    /\ OneVarsUnchanged

NextOne ==
    \/ \E page \in OnePages, reference_image \in OneRefs : O_Call(page, reference_image)
    \/ \E out \in {"bytes", "empty", "raise"} : O_Generate(out)
    \/ \E out \in {"ok", "raise"} : O_UploadOriginal(out)
    \/ \E out \in {"ok", "raise"} : O_UploadThumbnail(out)

\* no generate_images call: the page list plays no part
InitOne == Init /\ pages = <<>> /\ ~high_concurrency

SpecOne == InitOne /\ [][NextOne]_vars

\* ------------------------------------- requests served one after another
OtherTaskId == "task_b"
UnknownTaskId == "task_x"
TaskIds == {TaskId, OtherTaskId, UnknownTaskId}

\* get_task_state(task_id): self._task_states.get(task_id)
get_task_state(task_id) ==
    IF task_id = TaskId THEN task_state
    ELSE IF task_id = OtherTaskId THEN other_state ELSE NoState

\* the generate_images stream has been consumed and no retry is being served
Quiet == pc = "closed" /\ retry.st = "idle"

\* cleanup_task that empties the registry
cleanup_task_ClearAll(task_id) ==
    /\ Quiet
    /\ requests < MaxRequests
    /\ task_state' = NoState
    /\ other_state' = NoState
    /\ requests' = requests + 1
    /\ last_request' = [op |-> "cleanup_task", task_id |-> task_id]
    /\ UNCHANGED <<one, pool, uploads, aside, rfVars, inputs, pc, genLocals, events, call, retryVars>>

\* cleanup_task(task_id): the entry is deleted if there is one
cleanup_task(task_id) ==
    /\ Quiet
    /\ requests < MaxRequests
    /\ task_state' = IF task_id = TaskId THEN NoState ELSE task_state
    /\ other_state' = IF task_id = OtherTaskId THEN NoState ELSE other_state
    /\ requests' = requests + 1
    /\ last_request' = [op |-> "cleanup_task", task_id |-> task_id]
    /\ UNCHANGED <<one, pool, uploads, aside, rfVars, inputs, pc, genLocals, events, call, retryVars>>

\* the consumer has read the stream to its end: the generator and its
\* locals are gone, the task state stays in the registry
G_Close ==
    /\ pc = "done"
    /\ pc' = "closed"
    /\ cover_page' = NoPage
    /\ other_pages' = <<>>
    /\ generated_images' = <<>>
    /\ failed_pages' = <<>>
    /\ cover_image_data' = NoImage
    /\ k' = 0
    /\ pending' = {}
    /\ events' = <<>>
    /\ call' = [c \in CallIds |-> NoCall]
    /\ UNCHANGED <<outside, inputs, task_state, retryVars>>

\* generate_images is called again with the same task_id and pages: a new
\* generator that has not run yet
G_Again ==
    /\ Quiet
    /\ requests < MaxRequests
    /\ pc' = "start"
    /\ requests' = requests + 1
    /\ last_request' = [op |-> "generate_images", task_id |-> TaskId]
    /\ UNCHANGED <<one, pool, uploads, aside, rfVars, other_state, inputs, task_state, genLocals, events, call, retryVars>>

\* one generate_images run, then retry and cleanup requests one at a time
NextSeq ==
    \/ G_Start
    \/ G_CoverCall
    \/ G_CoverResult
    \/ G_Phase2
    \/ G_ParSubmit
    \/ G_ParProgress
    \/ \E c \in CallIds : G_ParCollect(c)
    \/ G_ParFinish
    \/ G_SerProgress
    \/ G_SerCall
    \/ G_SerResult
    \/ G_SerFinish
    \/ \E c \in CallIds : W_Start(c)
    \/ \E c \in CallIds : Attempt(c)
    \/ G_Close
    \/ \E page \in RetryArgs, use_reference \in BOOLEAN :
          Quiet /\ retry_single_image(page, use_reference)
    \/ \E page \in RetryArgs, use_reference \in BOOLEAN :
          Quiet /\ regenerate_image(page, use_reference)
    \/ R_Finish
    \/ \E task_id \in TaskIds : cleanup_task(task_id)

SpecSeq == Init /\ [][NextSeq]_vars

\* --------------------------------------------------- retry_failed_images
\* the pages of ps at the positions in S, in the order of ps
SubSeqOf(ps, S) ==
    LET F[n \in 0..Len(ps)] ==
            IF n = 0 THEN <<>>
            ELSE IF n \in S THEN Append(F[n - 1], ps[n]) ELSE F[n - 1]
    IN F[Len(ps)]

\* the pages arguments of retry_failed_images: some pages of the task
RetryPageLists ==
    { SubSeqOf(pages, S) : S \in { T \in SUBSET (1..Len(pages)) : Cardinality(T) <= MaxRetryPages } }

RetryStartEvent(total) == [event |-> "retry_start", total |-> total]
RetryCompleteEvent(index) ==
    [event |-> "complete", index |-> index, status |-> "done",
     image_url |-> ImageUrl(TaskId, Filename(index))]
RetryErrorEvent(index, message) ==
    [event |-> "error", index |-> index, status |-> "error", message |-> message,
     retryable |-> TRUE]
RetryFinishEvent(total, success_count, failed_count) ==
    [event |-> "retry_finish", success |-> (failed_count = 0), total |-> total,
     completed |-> success_count, failed |-> failed_count]

\* the generator runs to its first yield: the reference image is read from
\* the task state, the counters are set, retry_start is yielded
retry_failed_images(ps) ==
    /\ Quiet
    /\ rf.pc = "idle"
    /\ rf' = [NoRF EXCEPT !.pc = "submit", !.pages = ps, !.total = Len(ps),
                          !.reference_image = IF task_state.exists
                                              THEN task_state.cover_image ELSE NoImage]
    /\ rf_events' = Append(rf_events, RetryStartEvent(Len(ps)))
    /\ UNCHANGED <<one, pool, uploads, aside, reqVars, inputs, task_state, pc, genLocals, events, call, retryVars>>

\* one call per page is submitted to the pool; the future of the page at
\* position c of the argument is call[c]
RF_Submit ==
    /\ rf.pc = "submit"
    /\ call' = [c \in CallIds |->
                  IF c \in 1..Len(rf.pages)
                  THEN SubmitCall(rf.pages[c], rf.reference_image, NoUserImages)
                  ELSE call[c]]
    /\ rf' = [rf EXCEPT !.pc = "collect", !.pending = 1..Len(rf.pages)]
    /\ UNCHANGED <<one, pool, uploads, aside, reqVars, inputs, task_state, pc, genLocals, events, retryVars, rf_events>>

\* RF_Collect that drops a failed call without counting or reporting it
RF_Collect_SkipFailure(c) ==
    /\ rf.pc = "collect"
    /\ c \in rf.pending
    /\ call[c].st = "returned"
    /\ LET r == call[c]
           index == r.page.index
       IN IF r.success
          THEN /\ task_state' = IF task_state.exists
                                THEN [task_state EXCEPT !.generated = Put(@, index, Filename(index)),
                                                        !.failed = Del(@, index)]
                                ELSE task_state
               /\ rf' = [rf EXCEPT !.success_count = @ + 1, !.pending = @ \ {c}]
               /\ rf_events' = Append(rf_events, RetryCompleteEvent(index))
          ELSE /\ rf' = [rf EXCEPT !.pending = @ \ {c}]
               /\ UNCHANGED <<task_state, rf_events>>
    /\ UNCHANGED <<one, pool, uploads, aside, reqVars, inputs, pc, genLocals, events, call, retryVars>>

\* as_completed hands over a finished future: count it, update the task
\* state on success, yield complete or error
RF_Collect(c) ==
    /\ rf.pc = "collect"
    /\ c \in rf.pending
    /\ call[c].st = "returned"
    /\ LET r == call[c]
           index == r.page.index
       IN IF r.success
          THEN /\ task_state' = IF task_state.exists
                                THEN [task_state EXCEPT !.generated = Put(@, index, Filename(index)),
                                                        !.failed = Del(@, index)]
                                ELSE task_state
               /\ rf' = [rf EXCEPT !.success_count = @ + 1, !.pending = @ \ {c}]
               /\ rf_events' = Append(rf_events, RetryCompleteEvent(index))
          ELSE /\ rf' = [rf EXCEPT !.failed_count = @ + 1, !.pending = @ \ {c}]
               /\ rf_events' = Append(rf_events, RetryErrorEvent(index, r.error))
               /\ UNCHANGED task_state
    /\ UNCHANGED <<one, pool, uploads, aside, reqVars, inputs, pc, genLocals, events, call, retryVars>>

\* every future has been handed over: the pool is left, retry_finish is yielded
RF_Finish ==
    /\ rf.pc = "collect"
    /\ rf.pending = {}
    /\ rf' = [rf EXCEPT !.pc = "done"]
    /\ rf_events' = Append(rf_events, RetryFinishEvent(rf.total, rf.success_count, rf.failed_count))
    /\ UNCHANGED <<one, pool, uploads, aside, reqVars, inputs, task_state, pc, genLocals, events, call, retryVars>>

\* one generate_images run consumed to its end, then one retry_failed_images
NextRF ==
    \/ G_Start
    \/ G_CoverCall
    \/ G_CoverResult
    \/ G_Phase2
    \/ G_ParSubmit
    \/ G_ParProgress
    \/ \E c \in CallIds : G_ParCollect(c)
    \/ G_ParFinish
    \/ G_SerProgress
    \/ G_SerCall
    \/ G_SerResult
    \/ G_SerFinish
    \/ \E c \in CallIds : W_Start(c)
    \/ \E c \in CallIds : Attempt(c)
    \/ G_Close
    \/ \E ps \in RetryPageLists : retry_failed_images(ps)
    \/ RF_Submit
    \/ \E c \in CallIds : RF_Collect(c)
    \/ RF_Finish

SpecRF == Init /\ [][NextRF]_vars

\* ------------------------------------------------------ the worker pool
\* ThreadPoolExecutor(max_workers=self.MAX_CONCURRENT) of one call of
\* generate_images (parallel mode) or retry_failed_images, with more pages
\* than workers: the calls are counted by stage, not told apart
PoolUnchanged ==
    UNCHANGED <<one, uploads, aside, reqVars, rfVars, inputs, task_state, pc, genLocals, events, call, retryVars>>

\* executor.submit(self._generate_single_image, page, ...) for page in pages
P_Submit(by, n) ==
    /\ pool.st = "none"
    /\ pool' = [NoPool EXCEPT !.st = "open", !.by = by, !.queued = n]
    /\ PoolUnchanged

\* P_Start of a pool that starts a thread for every submitted call
P_Start_Unbounded ==
    /\ pool.st = "open"
    /\ pool.queued > 0
    /\ pool' = [pool EXCEPT !.queued = @ - 1, !.running = @ + 1]
    /\ PoolUnchanged

\* a worker thread takes a submitted call; the pool has max_workers threads
P_Start ==
    /\ pool.st = "open"
    /\ pool.queued > 0
    /\ pool.running < MAX_CONCURRENT
    /\ pool' = [pool EXCEPT !.queued = @ - 1, !.running = @ + 1]
    /\ PoolUnchanged

\* a running _generate_single_image call returns
P_Return ==
    /\ pool.st = "open"
    /\ pool.running > 0
    /\ pool' = [pool EXCEPT !.running = @ - 1, !.returned = @ + 1]
    /\ PoolUnchanged

\* end of the with block: shutdown(wait=True) returns when every call has
P_Shutdown ==
    /\ pool.st = "open"
    /\ pool.queued = 0
    /\ pool.running = 0
    /\ pool' = [pool EXCEPT !.st = "shut"]
    /\ PoolUnchanged

NextPool ==
    \/ \E by \in {"generate_images", "retry_failed_images"}, n \in 0..MaxPoolPages : P_Submit(by, n)
    \/ P_Start
    \/ P_Return
    \/ P_Shutdown

SpecPool == InitOne /\ [][NextPool]_vars

\* ------------------------------------------------- an abandoned stream
\* the positions at which the generator is suspended in a yield before finish
SuspendedAt == {"cover_call", "phase2", "par_submit", "par_progress", "ser_progress", "ser_call"}

\* the consumer closes the stream: GeneratorExit is raised at the yield and
\* the generator body is never resumed; inside the with block the pool is
\* shut down with wait=True, so its threads go on with the submitted calls
G_Abandon ==
    /\ pc \in SuspendedAt
    /\ pc' = "abandoned"
    /\ UNCHANGED <<outside, inputs, task_state, genLocals, events, call, retryVars>>

\* one generate_images run that the consumer may abandon at any yield
NextAbandon ==
    \/ G_Start
    \/ G_CoverCall
    \/ G_CoverResult
    \/ G_Phase2
    \/ G_ParSubmit
    \/ G_ParProgress
    \/ \E c \in CallIds : G_ParCollect(c)
    \/ G_ParFinish
    \/ G_SerProgress
    \/ G_SerCall
    \/ G_SerResult
    \/ G_SerFinish
    \/ \E c \in CallIds : W_Start(c)
    \/ \E c \in CallIds : Attempt(c)
    \/ G_Abandon

SpecAbandon == Init /\ [][NextAbandon]_vars

\* ------------------------------------------- compress_image that fails
\* first next() when compress_image raises for a user image: the list
\* comprehension stands outside any try, before the task state is created,
\* so the exception leaves the generator
G_UserImagesRaise ==
    /\ pc = "start"
    /\ UserImages # <<>>
    /\ pc' = "raised"
    /\ UNCHANGED <<outside, inputs, task_state, genLocals, events, call, retryVars>>

\* the cover call has returned bytes and compress_image raises for them:
\* the filename is already recorded, cover_image is not, nothing is
\* yielded and the exception leaves the generator
G_CoverCompressRaise ==
    /\ pc = "cover_wait"
    /\ LET r == call[cover_page.index]
           index == r.page.index
       IN /\ r.st = "returned"
          /\ r.success /\ r.data # NoImage
          /\ generated_images' = Append(generated_images, Filename(index))
          /\ task_state' = [task_state EXCEPT !.generated = Put(@, index, Filename(index))]
    /\ pc' = "raised"
    /\ UNCHANGED <<outside, inputs, cover_page, other_pages, failed_pages, cover_image_data,
                   k, pending, events, call, retryVars>>

\* one generate_images run in which compress_image may fail
NextRaise ==
    \/ G_Start
    \/ G_CoverCall
    \/ G_CoverResult
    \/ G_Phase2
    \/ G_ParSubmit
    \/ G_ParProgress
    \/ \E c \in CallIds : G_ParCollect(c)
    \/ G_ParFinish
    \/ G_SerProgress
    \/ G_SerCall
    \/ G_SerResult
    \/ G_SerFinish
    \/ \E c \in CallIds : W_Start(c)
    \/ \E c \in CallIds : Attempt(c)
    \/ G_UserImagesRaise
    \/ G_CoverCompressRaise

SpecRaise == Init /\ [][NextRaise]_vars

\* ------------------------------------------------------ object keys
\* task_id values as the entry points take them: any string, written here as
\* its parts between the "/" separators
TaskIdValues == { <<"task_a">>, <<"task_b">>, <<"u1", "task_a">>, <<"u2", "task_a">> }

\* os.path.basename(task_id_or_path): what follows the last separator
basename(path) == path[Len(path)]

\* the key under which _save_image uploads the original of page index
OriginalKey(task_id, index) == ObjectName(basename(task_id), Filename(index))

\* one _generate_single_image call for (task_id, index) uploads its original
K_Upload(task_id, index) ==
    /\ uploads' = uploads \cup {[task_id |-> task_id, index |-> index,
                                  key |-> OriginalKey(task_id, index)]}
    /\ UNCHANGED <<one, pool, aside, reqVars, rfVars, inputs, task_state, pc, genLocals, events,
                   call, retryVars>>

NextKeys == \E task_id \in TaskIdValues, index \in 1..MaxPages : K_Upload(task_id, index)

SpecKeys == InitOne /\ [][NextKeys]_vars

\* ------------------------------------------ scan_and_sync_task_images
\* the file names a task folder may hold: stem, extension, thumb_ prefix
FileNames ==
    { [stem |-> i, ext |-> ".png", thumb |-> FALSE] : i \in 1..(MaxPages + 1) }
    \cup { [stem |-> 1, ext |-> ".jpg", thumb |-> FALSE],
           [stem |-> 1, ext |-> ".png", thumb |-> TRUE],
           [stem |-> 1, ext |-> ".txt", thumb |-> FALSE] }

HistoryUnchanged ==
    UNCHANGED <<one, pool, uploads, service_instance, beside, reqVars, rfVars, inputs, task_state, pc, genLocals, events,
                call, retryVars>>

\* create_record(topic, outline, task_id): status draft, no image yet
create_record(page_count) ==
    /\ ~catalog.record
    /\ catalog' = [catalog EXCEPT !.record = TRUE, !.page_count = page_count,
                                  !.status = "draft", !.generated = {}]
    /\ HistoryUnchanged

\* a file appears in the folder of the task
H_NewFile(f) ==
    /\ f \notin catalog.dir
    /\ catalog' = [catalog EXCEPT !.dir = @ \cup {f}, !.synced = FALSE]
    /\ HistoryUnchanged

\* the files the scan keeps: no thumbnail, an image extension
ImageFiles(dir) == { f \in dir : ~f.thumb /\ f.ext \in {".png", ".jpg", ".jpeg"} }

\* the status the scan derives from the two counts
ScanStatus(actual_count, expected_count) ==
    IF actual_count = 0 THEN "draft"
    ELSE IF actual_count >= expected_count THEN "completed"
    ELSE "partial"

\* scan_and_sync_task_images(task_id) with a record of the task
scan_and_sync_task_images ==
    /\ catalog.record
    /\ ~catalog.synced
    /\ LET image_files == ImageFiles(catalog.dir)
       IN catalog' = [catalog EXCEPT
              !.generated = image_files,
              !.status = ScanStatus(Cardinality(image_files), catalog.page_count),
              !.synced = TRUE]
    /\ HistoryUnchanged

NextScan ==
    \/ \E page_count \in 0..MaxPages : create_record(page_count)
    \/ \E f \in FileNames : H_NewFile(f)
    \/ scan_and_sync_task_images

SpecScan == InitOne /\ [][NextScan]_vars

\* ------------------------------------------------ configuration update
\* update_config: the configuration is written, then _clear_config_cache
\* calls reset_image_service, which sets _service_instance to None
update_config ==
    /\ Quiet
    /\ service_instance # "none"
    /\ service_instance' = "none"
    /\ UNCHANGED <<one, pool, uploads, catalog, beside, reqVars, rfVars, inputs, task_state, pc,
                   genLocals, events, call, retryVars>>

\* get_image_service() with no instance: a new ImageService is made, whose
\* _task_states is empty; the registry of the old instance is out of reach
get_image_service ==
    /\ service_instance = "none"
    /\ service_instance' = "ImageService"
    /\ task_state' = NoState
    /\ other_state' = NoState
    /\ UNCHANGED <<one, pool, uploads, catalog, beside, requests, last_request, rfVars, inputs, pc,
                   genLocals, events, call, retryVars>>

\* one generate_images run consumed to its end, then a configuration update
NextConfig ==
    \/ G_Start
    \/ G_CoverCall
    \/ G_CoverResult
    \/ G_Phase2
    \/ G_ParSubmit
    \/ G_ParProgress
    \/ \E c \in CallIds : G_ParCollect(c)
    \/ G_ParFinish
    \/ G_SerProgress
    \/ G_SerCall
    \/ G_SerResult
    \/ G_SerFinish
    \/ \E c \in CallIds : W_Start(c)
    \/ \E c \in CallIds : Attempt(c)
    \/ G_Close
    \/ update_config
    \/ get_image_service

SpecConfig == Init /\ [][NextConfig]_vars

\* one generate_images run consumed to its end, one retry_failed_images
\* stream consumed to its end, then a retry_single_image or regenerate_image
\* request for the cover page
NextRetries ==
    \/ G_Start
    \/ G_CoverCall
    \/ G_CoverResult
    \/ G_Phase2
    \/ G_ParSubmit
    \/ G_ParProgress
    \/ \E c \in CallIds : G_ParCollect(c)
    \/ G_ParFinish
    \/ G_SerProgress
    \/ G_SerCall
    \/ G_SerResult
    \/ G_SerFinish
    \/ \E c \in CallIds : W_Start(c)
    \/ \E c \in CallIds : Attempt(c)
    \/ G_Close
    \/ \E ps \in RetryPageLists : retry_failed_images(ps)
    \/ RF_Submit
    \/ \E c \in CallIds : RF_Collect(c)
    \/ RF_Finish
    \/ \E use_reference \in BOOLEAN :
          rf.pc = "done" /\ Quiet /\ retry_single_image(PartitionCover(pages), use_reference)
    \/ \E use_reference \in BOOLEAN :
          rf.pc = "done" /\ Quiet /\ regenerate_image(PartitionCover(pages), use_reference)
    \/ R_Finish

SpecRetries == Init /\ [][NextRetries]_vars

\* ------------------------------------------- image_api reference list
MaxUserImages == 3
\* the images a caller can hand over: two user images and a cover reference
RefImageValues == { [page |-> 0, kb |-> 100], [page |-> 0, kb |-> CoverMaxKb],
                    [page |-> 1, kb |-> CoverMaxKb] }
RECURSIVE ListsUpTo(_, _)
ListsUpTo(S, n) ==
    IF n = 0 THEN { <<>> }
    ELSE LET shorter == ListsUpTo(S, n - 1)
         IN shorter \cup { Append(l, x) : l \in { m \in shorter : Len(m) = n - 1 }, x \in S }
UserImageLists == ListsUpTo(RefImageValues, MaxUserImages)

\* variant: the cover reference is put in front of the user images
reference_images_CoverFirst(user_images, reference_image) ==
    (IF reference_image # NoImage THEN << reference_image >> ELSE <<>>)
       \o (IF user_images # <<>> THEN user_images ELSE <<>>)

\* reference_images = []; extend(user_images) if user_images;
\* append(reference_image) if reference_image
reference_images(user_images, reference_image) ==
    (IF user_images # <<>> THEN user_images ELSE <<>>)
       \o (IF reference_image # NoImage THEN << reference_image >> ELSE <<>>)

\* the image_api branch of _generate_single_image calls the generator with
\* reference_images=reference_images if reference_images else None
I_GenerateImage(user_images, reference_image) ==
    /\ refs.st = "idle"
    /\ LET l == reference_images(user_images, reference_image)
       IN refs' = [st |-> "called", user_images |-> user_images,
                   reference_image |-> reference_image,
                   none |-> (l = <<>>), reference_images |-> l]
    /\ UNCHANGED <<one, pool, uploads, catalog, service_instance, sse, store, two, reqVars, rfVars, inputs,
                   task_state, pc, genLocals, events, call, retryVars>>

NextRefs ==
    \E user_images \in UserImageLists, reference_image \in RefImageValues \cup {NoImage} :
       I_GenerateImage(user_images, reference_image)

SpecRefs == InitOne /\ [][NextRefs]_vars

\* ------------------------------------------------ outline SSE stream
MaxKeepAlive == 4
\* how outline_service.generate_outline ends in the background thread: a
\* result dict (success, or failure with, without or with an empty error
\* text, or one json.dumps cannot serialise) or an exception
OutlineOutcomes == { "success", "unserialisable", "failure", "failure_no_error",
                     "failure_error_none", "raised" }
KeepAliveFrame == [event |-> "keep-alive", data |-> ""]
CompleteFrame == [event |-> "complete", data |-> "result"]
ErrorFrame(error_msg) == [event |-> "error", data |-> error_msg]

StreamUnchanged ==
    UNCHANGED <<one, pool, uploads, catalog, service_instance, refs, store, two, reqVars, rfVars, inputs,
                task_state, pc, genLocals, events, call, retryVars>>

\* the frame generate() yields once future.done(): future.result() re-raises
\* the exception of the service, json.dumps or .replace may raise, and every
\* Exception ends in the except branch, which yields an error frame
ResultFrame(out) ==
    CASE out = "success" -> CompleteFrame
      [] out = "failure" -> ErrorFrame("error")
      [] out = "failure_no_error" -> ErrorFrame("unknown")
      [] OTHER -> ErrorFrame("exception")

\* first pull: the executor is made, the service is fetched (which may
\* raise) and generate_outline is submitted with topic and
\* images if images else None
S_Open(ok, images) ==
    /\ sse.pc = "start"
    /\ sse' = IF ok
              THEN [sse EXCEPT !.pc = "check", !.future = "running",
                               !.images = IF images # <<>> THEN "images" ELSE "None"]
              ELSE [sse EXCEPT !.pc = "end", !.frames = Append(@, ErrorFrame("exception"))]
    /\ StreamUnchanged

\* the background thread ends generate_outline
S_TaskDone(out) ==
    /\ sse.future = "running"
    /\ sse' = [sse EXCEPT !.future = out]
    /\ StreamUnchanged

\* while not future.done(): yield ": keep-alive"
S_KeepAlive ==
    /\ sse.pc = "check"
    /\ sse.future = "running"
    /\ Len(sse.frames) < MaxKeepAlive
    /\ sse' = [sse EXCEPT !.pc = "sleep", !.frames = Append(@, KeepAliveFrame)]
    /\ StreamUnchanged

\* time.sleep(5) is over, back to the loop condition
S_Sleep ==
    /\ sse.pc = "sleep"
    /\ sse' = [sse EXCEPT !.pc = "check"]
    /\ StreamUnchanged

\* variant: an exception of the service is not caught and ends the stream
S_Result_NoCatch ==
    /\ sse.pc = "check"
    /\ sse.future \in OutlineOutcomes
    /\ sse' = [sse EXCEPT !.pc = "end",
                          !.frames = IF sse.future = "raised" THEN @
                                     ELSE Append(@, ResultFrame(sse.future))]
    /\ StreamUnchanged

\* the loop is left, the terminal frame is yielded, the executor is shut down
S_Result ==
    /\ sse.pc = "check"
    /\ sse.future \in OutlineOutcomes
    /\ sse' = [sse EXCEPT !.pc = "end", !.frames = Append(@, ResultFrame(sse.future))]
    /\ StreamUnchanged

NextStream ==
    \/ \E ok \in BOOLEAN, images \in {<<>>, UserImages} : S_Open(ok, images)
    \/ \E out \in OutlineOutcomes : S_TaskDone(out)
    \/ S_KeepAlive
    \/ S_Sleep
    \/ S_Result

SpecStream == InitOne /\ [][NextStream]_vars

\* ------------------------------------------------------ object store
StoreUnchanged ==
    UNCHANGED <<one, pool, uploads, catalog, service_instance, refs, sse, two, reqVars, rfVars, inputs,
                task_state, pc, genLocals, events, call, retryVars>>

\* StorageService(): s3_client stays None unless the configuration is
\* complete and boto3.client succeeds
StorageService_init(valid) ==
    /\ store.s3_client = "unset"
    /\ store' = [store EXCEPT !.s3_client = IF valid THEN "client" ELSE "None"]
    /\ StoreUnchanged

\* _generate_single_image for one page of the task; the generator returns bytes
U_Call(index) ==
    /\ store.s3_client # "unset"
    /\ store.st = "idle"
    /\ index \notin store.generated \cup store.failed
    /\ store' = [store EXCEPT !.st = "original", !.index = index, !.attempt = 0]
    /\ StoreUnchanged

\* the except branch of _generate_single_image after _save_image raised
U_Except(st) ==
    IF st.attempt < AUTO_RETRY_COUNT - 1
    THEN [st EXCEPT !.st = "original", !.attempt = @ + 1]
    ELSE [st EXCEPT !.st = "idle", !.failed = @ \cup {st.index}]

\* upload_file: returns "" without uploading when s3_client is None, else
\* put_object stores the object or raises ClientError
upload_file(st, object_name, out) ==
    IF st.s3_client = "None" THEN st
    ELSE IF out = "ok" THEN [st EXCEPT !.objects = @ \cup {object_name}]
    ELSE st

Raises(st, out) == st.s3_client # "None" /\ out = "raise"

\* _save_image: upload of the original
U_UploadOriginal(out) ==
    /\ store.st = "original"
    /\ LET after == upload_file(store, ObjectName(TaskId, Filename(store.index)), out)
       IN store' = IF Raises(store, out) THEN U_Except(after)
                   ELSE [after EXCEPT !.st = "thumbnail"]
    /\ StoreUnchanged

\* _save_image: upload of the thumbnail; then the call returns success, the
\* caller records generated[index] and yields the complete event
U_UploadThumbnail(out) ==
    /\ store.st = "thumbnail"
    /\ LET after == upload_file(store, ThumbObjectName(TaskId, Filename(store.index)), out)
       IN store' = IF Raises(store, out) THEN U_Except(after)
                   ELSE [after EXCEPT !.st = "idle",
                                      !.generated = @ \cup {store.index},
                                      !.completed = @ \cup {store.index}]
    /\ StoreUnchanged

NextStore ==
    \/ \E valid \in BOOLEAN : StorageService_init(valid)
    \/ \E index \in 1..MaxPages : U_Call(index)
    \/ \E out \in {"ok", "raise"} : U_UploadOriginal(out)
    \/ \E out \in {"ok", "raise"} : U_UploadThumbnail(out)

SpecStore == InitOne /\ [][NextStore]_vars

\* ------------------------------------------------ two tasks at once
TwoUnchanged ==
    UNCHANGED <<one, pool, uploads, catalog, service_instance, refs, sse, store, reqVars, rfVars,
                inputs, task_state, pc, genLocals, events, call, retryVars>>

Slots == {"A", "B"}
Other(t) == IF t = "A" THEN "B" ELSE "A"
history_root_dir == <<"history">>

\* entry of generate_images or retry_single_image for a task the other
\* thread is not serving: current_task_dir = join(history_root_dir, task_id)
T_Enter(t, task_id) ==
    /\ two.slot[t].st = "idle"
    /\ two.slot[t].task_id \in {<<>>, task_id}
    /\ two.slot[Other(t)].task_id # task_id
    /\ two' = [two EXCEPT !.current_task_dir = history_root_dir \o task_id,
                          !.slot[t] = [st |-> "entered", task_id |-> task_id, index |-> 0]]
    /\ TwoUnchanged

\* _generate_single_image(page, task_id, ...) got image bytes and calls
\* _save_image(image_data, filename, task_id): task_id_or_path is given, so
\* current_task_dir is not read
T_Save(t, index) ==
    /\ two.slot[t].st = "entered"
    /\ LET task_id_or_path == two.slot[t].task_id
       IN two' = [two EXCEPT !.uploads = @ \cup {[task_id |-> two.slot[t].task_id, index |-> index,
                                                  key |-> OriginalKey(task_id_or_path, index)]},
                             !.slot[t].st = "saved", !.slot[t].index = index]
    /\ TwoUnchanged

\* the caller records _task_states[task_id]["generated"][index] = filename
T_Record(t) ==
    /\ two.slot[t].st = "saved"
    /\ two' = [two EXCEPT !.registry = @ \cup {[task_id |-> two.slot[t].task_id,
                                                 index |-> two.slot[t].index,
                                                 by |-> t]},
                          !.slot[t].st = "idle"]
    /\ TwoUnchanged

NextTwo ==
    \/ \E t \in Slots, task_id \in TaskIdValues : T_Enter(t, task_id)
    \/ \E t \in Slots, index \in 1..MaxPages : T_Save(t, index)
    \/ \E t \in Slots : T_Record(t)

SpecTwo == InitOne /\ [][NextTwo]_vars

\* one generate_images run consumed to its end and cleanup_task of its task;
\* then the retry entry points are called with the task_id, which has no
\* task state any more
NextNoTask ==
    \/ G_Start
    \/ G_CoverCall
    \/ G_CoverResult
    \/ G_Phase2
    \/ G_ParSubmit
    \/ G_ParProgress
    \/ \E c \in CallIds : G_ParCollect(c)
    \/ G_ParFinish
    \/ G_SerProgress
    \/ G_SerCall
    \/ G_SerResult
    \/ G_SerFinish
    \/ \E c \in CallIds : W_Start(c)
    \/ \E c \in CallIds : Attempt(c)
    \/ G_Close
    \/ rf.pc = "idle" /\ cleanup_task(TaskId)
    \/ \E ps \in RetryPageLists : ~task_state.exists /\ retry_failed_images(ps)
    \/ RF_Submit
    \/ \E c \in CallIds : RF_Collect(c)
    \/ RF_Finish
    \/ \E page \in RetryArgs, use_reference \in BOOLEAN :
          /\ ~task_state.exists /\ Quiet /\ rf.pc \in {"idle", "done"}
          /\ retry_single_image(page, use_reference)
    \/ \E page \in RetryArgs, use_reference \in BOOLEAN :
          /\ ~task_state.exists /\ Quiet /\ rf.pc \in {"idle", "done"}
          /\ regenerate_image(page, use_reference)
    \/ R_Finish

SpecNoTask == Init /\ [][NextNoTask]_vars

\* generate_images runs, each consumed to its end, with the same task_id
NextAgain ==
    \/ G_Start
    \/ G_CoverCall
    \/ G_CoverResult
    \/ G_Phase2
    \/ G_ParSubmit
    \/ G_ParProgress
    \/ \E c \in CallIds : G_ParCollect(c)
    \/ G_ParFinish
    \/ G_SerProgress
    \/ G_SerCall
    \/ G_SerResult
    \/ G_SerFinish
    \/ \E c \in CallIds : W_Start(c)
    \/ \E c \in CallIds : Attempt(c)
    \/ G_Close
    \/ G_Again

SpecAgain == Init /\ [][NextAgain]_vars

\* ------------------------------------------------------------------ Next
Next ==
    \/ G_Start
    \/ G_CoverCall
    \/ G_CoverResult
    \/ G_Phase2
    \/ G_ParSubmit
    \/ G_ParProgress
    \/ \E c \in CallIds : G_ParCollect(c)
    \/ G_ParFinish
    \/ G_SerProgress
    \/ G_SerCall
    \/ G_SerResult
    \/ G_SerFinish
    \/ \E c \in CallIds : W_Start(c)
    \/ \E c \in CallIds : Attempt(c)
    \/ \E page \in RetryArgs, use_reference \in BOOLEAN : retry_single_image(page, use_reference)
    \/ \E page \in RetryArgs, use_reference \in BOOLEAN : regenerate_image(page, use_reference)
    \/ R_Finish

Spec == Init /\ [][Next]_vars

\* generate_images alone, no retry request
NextGen ==
    \/ G_Start
    \/ G_CoverCall
    \/ G_CoverResult
    \/ G_Phase2
    \/ G_ParSubmit
    \/ G_ParProgress
    \/ \E c \in CallIds : G_ParCollect(c)
    \/ G_ParFinish
    \/ G_SerProgress
    \/ G_SerCall
    \/ G_SerResult
    \/ G_SerFinish
    \/ \E c \in CallIds : W_Start(c)
    \/ \E c \in CallIds : Attempt(c)

SpecGen == Init /\ [][NextGen]_vars

\* the steps of the generator itself, taken when the consumer pulls an event
GenPull ==
    \/ G_Start
    \/ G_CoverCall
    \/ G_CoverResult
    \/ G_Phase2
    \/ G_ParSubmit
    \/ G_ParProgress
    \/ \E c \in CallIds : G_ParCollect(c)
    \/ G_ParFinish
    \/ G_SerProgress
    \/ G_SerCall
    \/ G_SerResult
    \/ G_SerFinish

\* generate_images with a consumer that keeps pulling, pool threads that take
\* the submitted calls, and attempts (generator call and uploads) that each
\* return or raise
SpecGenFair ==
    /\ Init
    /\ [][NextGen]_vars
    /\ WF_vars(GenPull)
    /\ \A c \in CallIds : WF_vars(W_Start(c)) /\ WF_vars(Attempt(c))

TypeOK ==
    /\ pc \in {"start", "cover_call", "cover_wait", "phase2", "par_submit", "par_progress",
               "ser_progress", "ser_call", "ser_wait", "done", "closed", "abandoned", "raised"}
    /\ k \in 0..MaxPages
    /\ retries \in 0..MaxRetryCalls

\* ------------------------------------------------------------ properties
Terminal(e) == e.event \in {"complete", "error"}
Generating(e) == e.event = "progress" /\ e.status = "generating"
LastEvent == events[Len(events)]
TerminalsOf(index) == { j \in 1..Len(events) : Terminal(events[j]) /\ events[j].index = index }
Ascending(s) == \A a, b \in 1..Len(s) : a < b => s[a] < s[b]
SeqRange(s) == { s[j] : j \in 1..Len(s) }

\* C1: a page index is never a key of both generated and failed of the task
C1_GeneratedFailedDisjoint ==
    task_state.exists => DOMAIN task_state.generated \cap DOMAIN task_state.failed = {}

\* C2: every key of generated and of failed is the index of a page of the task
C2_KeysArePageIndices ==
    task_state.exists =>
        (DOMAIN task_state.generated \cup DOMAIN task_state.failed) \subseteq Indices(task_state.pages)

\* C3: an event sequence consumed to its end holds exactly one finish event,
\* and it is the last event; no finish event is yielded earlier
C3_FinishOnceAndLast ==
    /\ \A j \in 1..Len(events) : events[j].event = "finish" => (j = Len(events) /\ pc = "done")
    /\ pc = "done" => (Len(events) >= 1 /\ LastEvent.event = "finish")

C3_Witness ==
    /\ pc = "done"
    /\ high_concurrency
    /\ LastEvent.event = "finish"
    /\ LastEvent.completed >= 1
    /\ LastEvent.failed >= 2

\* C4: in the finish event completed + failed = total, the number of input pages
C4_FinishCountsAddUp ==
    pc = "done" => LastEvent.completed + LastEvent.failed = Len(pages)

\* C5: every input page index gets exactly one terminal event (complete or error)
C5_OneTerminalPerPage ==
    pc = "done" => \A i \in Indices(pages) : Cardinality(TerminalsOf(i)) = 1

\* C6: failed_indices of the finish event is ascending and holds exactly the
\* indices of the pages that got an error event
C6_FailedIndicesAscending ==
    pc = "done" =>
        /\ Ascending(LastEvent.failed_indices)
        /\ SeqRange(LastEvent.failed_indices) =
              { events[j].index : j \in { j2 \in 1..Len(events) : events[j2].event = "error" } }

\* C7: the terminal event of the cover page precedes every terminal event of
\* a content page
C7_CoverOutcomeFirst ==
    \A j \in 1..Len(events) :
        (Terminal(events[j]) /\ events[j].phase = "content") =>
            \E i \in 1..(j - 1) : /\ Terminal(events[i])
                                  /\ events[i].phase = "cover"
                                  /\ events[i].index = cover_page.index

C7_Witness ==
    /\ high_concurrency
    /\ \E j \in 1..Len(events) : events[j].event = "error" /\ events[j].phase = "cover"
    /\ Cardinality({ j \in 1..Len(events) : Terminal(events[j]) /\ events[j].phase = "content" }) >= 2

\* C8: a content-page call of _generate_single_image has started only if the
\* cover call has returned, and the cover call is never handed to the pool
ContentCalls == { c \in CallIds : c # RetryId /\ c # cover_page.index /\ call[c].st # "none" }

C8_CoverCallAlone ==
    /\ \A c \in ContentCalls :
          call[c].st \in {"running", "returned"} =>
              (cover_page # NoPage /\ call[cover_page.index].st = "returned")
    /\ cover_page # NoPage => call[cover_page.index].st # "queued"

C8_Witness ==
    /\ high_concurrency
    /\ cover_page # NoPage
    /\ Cardinality({ c \in ContentCalls : call[c].st = "running" }) >= 2
    /\ call[cover_page.index].attempt = AUTO_RETRY_COUNT - 1

\* C9: the terminal event of an index is preceded by a progress event with
\* status generating for that index
C9_ProgressBeforeOutcome ==
    \A j \in 1..Len(events) :
        Terminal(events[j]) =>
            \E i \in 1..(j - 1) : Generating(events[i]) /\ events[i].index = events[j].index

C9_Witness ==
    /\ ~high_concurrency
    /\ Cardinality({ j \in 1..Len(events) : Terminal(events[j]) /\ events[j].phase = "content" }) >= 2

\* C10: when the cover call succeeded, every content-page call got the
\* compressed cover bytes, the value of cover_image of the task, as reference
C10_ContentGetsCoverReference ==
    (cover_page # NoPage /\ call[cover_page.index].st = "returned" /\ call[cover_page.index].success) =>
        \A c \in ContentCalls :
            /\ call[c].ref # NoImage
            /\ call[c].ref = compress_image(call[cover_page.index].data, CoverMaxKb)
            /\ call[c].ref.kb <= CoverMaxKb
            /\ pc # "cover_wait" => call[c].ref = task_state.cover_image

C10_Witness ==
    /\ cover_page # NoPage
    /\ call[cover_page.index].success
    /\ call[cover_page.index].data.kb > CoverMaxKb
    /\ \E c \in ContentCalls : call[c].st = "running" /\ call[c].ref.kb = CoverMaxKb

\* C11: when the cover call fails, its index is recorded in failed, an error
\* event with phase cover and retryable true is yielded, cover_image stays
\* absent, every content page is still attempted, each without cover
\* reference, and the finish event reports success false
CoverFailed ==
    /\ cover_page # NoPage
    /\ call[cover_page.index].st = "returned"
    /\ ~call[cover_page.index].success
    /\ pc # "cover_wait"

C11_CoverFailureDegrades ==
    CoverFailed =>
        /\ cover_page.index \in DOMAIN task_state.failed
        /\ \E j \in 1..Len(events) :
              /\ events[j].event = "error"
              /\ events[j].index = cover_page.index
              /\ events[j].phase = "cover"
              /\ events[j].retryable
        /\ task_state.cover_image = NoImage
        /\ \A c \in ContentCalls : call[c].ref = NoImage
        /\ pc = "done" =>
              /\ \A j \in 1..Len(other_pages) : call[other_pages[j].index].st = "returned"
              /\ LastEvent.event = "finish"
              /\ LastEvent.success = FALSE

C11_Witness ==
    /\ CoverFailed
    /\ pc = "done"
    /\ Len(other_pages) >= 2
    /\ \E j \in 1..Len(other_pages) : call[other_pages[j].index].success

\* one call of _generate_single_image, its steps
Failed(step) == step.op # "sleep" /\ step.out # "ok" /\ step.out # "bytes"
GenerateSteps == { j \in 1..Len(one.log) : one.log[j].op = "generate" }
FailedSteps == { j \in 1..Len(one.log) : Failed(one.log[j]) }
SleepSteps == { j \in 1..Len(one.log) : one.log[j].op = "sleep" }

\* C12: one call makes at most 3 generator attempts, stops at the first
\* attempt that succeeds, returns a failure only after exactly 3 failed
\* attempts, and an attempt whose generator call raises or returns empty
\* data is a failed attempt
C12_AtMostThreeAttempts ==
    /\ Cardinality(GenerateSteps) <= AUTO_RETRY_COUNT
    /\ \A j \in GenerateSteps :
          one.log[j].out \in {"raise", "empty"} =>
              (j = Len(one.log) \/ one.log[j + 1].op = "sleep")
    /\ \A j \in 1..Len(one.log) :
          (one.log[j].op = "upload" /\ one.log[j].content_type = "image/jpeg" /\ one.log[j].out = "ok")
              => (j = Len(one.log) /\ one.st = "returned" /\ one.result.success)
    /\ one.st = "returned" =>
          IF one.result.success
          THEN /\ one.log[Len(one.log)].op = "upload"
               /\ one.log[Len(one.log)].out = "ok"
               /\ Cardinality(FailedSteps) = Cardinality(GenerateSteps) - 1
          ELSE /\ Cardinality(GenerateSteps) = AUTO_RETRY_COUNT
               /\ Cardinality(FailedSteps) = AUTO_RETRY_COUNT

C12_Witness ==
    /\ one.st = "returned"
    /\ ~one.result.success
    /\ \E j \in GenerateSteps : one.log[j].out = "empty"
    /\ \E j \in GenerateSteps : one.log[j].out = "raise"

\* C13: a sleep of 2^attempt seconds follows the first and the second failed
\* attempt and nothing else: every later attempt is preceded by it, none
\* precedes the first attempt, none follows a success or the third failure
C13_BackoffBetweenAttempts ==
    /\ \A j \in SleepSteps :
          /\ j > 1
          /\ Failed(one.log[j - 1])
          /\ one.log[j - 1].attempt = one.log[j].attempt
          /\ one.log[j].attempt < AUTO_RETRY_COUNT - 1
          /\ one.log[j].secs = IF one.log[j].attempt = 0 THEN 1 ELSE 2
          /\ IF j < Len(one.log)
             THEN one.log[j + 1].op = "generate" /\ one.log[j + 1].attempt = one.log[j].attempt + 1
             ELSE one.st = "generate"
    /\ \A j \in GenerateSteps :
          IF one.log[j].attempt = 0 THEN j = 1 ELSE one.log[j - 1].op = "sleep"
    /\ \A j \in FailedSteps :
          one.log[j].attempt < AUTO_RETRY_COUNT - 1 => one.log[j + 1].op = "sleep"
    /\ Cardinality(SleepSteps) <= AUTO_RETRY_COUNT - 1

C13_Witness ==
    /\ one.st = "returned"
    /\ one.result.success
    /\ Cardinality(SleepSteps) = 2

\* C14: after a failed upload the call makes no further generator call and
\* no further upload, and returns a failure
C14_UploadFailureNotRetried ==
    \A j \in 1..Len(one.log) :
        (one.log[j].op = "upload" /\ one.log[j].out = "raise") =>
            /\ \A j2 \in (j + 1)..Len(one.log) : one.log[j2].op \notin {"generate", "upload"}
            /\ one.st = "returned" => ~one.result.success

\* the step in which retry_single_image (or regenerate_image) returns
RetryReturns == retry.st = "running" /\ retry'.st = "idle"

\* the entries of every index but i are the same in both maps
SameButFor(d1, d2, i) ==
    /\ DOMAIN d1 \ {i} = DOMAIN d2 \ {i}
    /\ \A j \in DOMAIN d1 \ {i} : d1[j] = d2[j]

\* C15: when retry_single_image or regenerate_image succeeds for index i of
\* an existing task, i is then a key of generated and not a key of failed,
\* wherever i was at entry, and the entries of every other index are unchanged
C15_SuccessfulRetryMovesIndex ==
    [][(RetryReturns /\ retry'.result.success /\ task_state.exists) =>
          LET i == retry'.result.index
          IN /\ task_state'.exists
             /\ i \in DOMAIN task_state'.generated
             /\ i \notin DOMAIN task_state'.failed
             /\ SameButFor(task_state.generated, task_state'.generated, i)
             /\ SameButFor(task_state.failed, task_state'.failed, i)]_vars

C15_Witness ==
    /\ retry.st = "idle"
    /\ retry.result.success
    /\ retry.was = "failed"
    /\ task_state.exists
    /\ retry.result.index \in DOMAIN task_state.generated
    /\ retry.result.index \notin DOMAIN task_state.failed
    /\ DOMAIN task_state.failed # {}

\* C16: a retry_single_image call whose attempts all fail changes nothing of
\* the task state on its way (generated, failed, cover_image, pages,
\* full_outline, user_images, user_topic) and returns the failure result
C16_FailedRetryChangesNothing ==
    [][(retry.st = "running" /\ ~(RetryReturns /\ retry'.result.success)) =>
          /\ task_state' = task_state
          /\ RetryReturns =>
                /\ call[RetryId].st = "returned"
                /\ call[RetryId].attempt = AUTO_RETRY_COUNT - 1
                /\ retry'.result = [success |-> FALSE, index |-> call[RetryId].page.index,
                                    error |-> ErrMsg, retryable |-> TRUE]]_vars

C16_Witness ==
    /\ retry.st = "idle"
    /\ retry.result.index # 0
    /\ ~retry.result.success
    /\ retry.was = "generated"
    /\ task_state.exists
    /\ task_state.cover_image # NoImage
    /\ retry.result.index \in DOMAIN task_state.generated
    /\ retry.result.index \notin DOMAIN task_state.failed

\* the step of a cleanup_task request
CleanupStep == requests' = requests + 1 /\ last_request'.op = "cleanup_task"

\* C18: a cover_image that is set keeps its value in every later state of the
\* task until cleanup_task: no step of a later generate_images or retry
\* request with the same task_id replaces or clears it
C18_CoverImageKept ==
    [][(task_state.exists /\ task_state.cover_image # NoImage /\ ~CleanupStep) =>
          /\ task_state'.exists
          /\ task_state'.cover_image = task_state.cover_image]_vars

\* C19: the task state of task_id exists from the step in which
\* generate_images starts running until cleanup_task(task_id); after
\* cleanup_task(task_id), get_task_state(task_id) returns nothing; a
\* cleanup_task of an unknown task_id changes nothing, and no cleanup_task
\* changes the state of another task
C19_TaskStateLifetime ==
    [][/\ (pc = "start" /\ pc' # "start") => task_state'.exists
       /\ (task_state.exists /\ ~task_state'.exists) =>
              (CleanupStep /\ last_request'.task_id = TaskId)
       /\ CleanupStep =>
              \E task_id \in TaskIds :
                  /\ task_id = last_request'.task_id
                  /\ get_task_state(task_id)' = NoState
                  /\ \A other \in TaskIds \ {task_id} :
                        get_task_state(other)' = get_task_state(other)
                  /\ task_id = UnknownTaskId =>
                        (task_state' = task_state /\ other_state' = other_state)]_vars

C19_Witness ==
    /\ last_request = [op |-> "cleanup_task", task_id |-> TaskId]
    /\ requests = 1
    /\ get_task_state(TaskId) = NoState
    /\ get_task_state(OtherTaskId) = OtherTaskState
    /\ pages # <<>>

\* positions of the events of one kind in the retry_failed_images stream
RetryEventsOf(kinds) == { j \in 1..Len(rf_events) : rf_events[j].event \in kinds }

\* C20: a retry_failed_images stream consumed to its end starts with its
\* only retry_start, ends with its only retry_finish, has between them
\* exactly one complete or error event per page given, and its retry_finish
\* has completed + failed = total and success = (failed = 0)
C20_RetryFailedStream ==
    /\ RetryEventsOf({"retry_start"}) \subseteq {1}
    /\ rf.pc = "idle" <=> rf_events = <<>>
    /\ RetryEventsOf({"retry_finish"}) = IF rf.pc = "done" THEN {Len(rf_events)} ELSE {}
    /\ \A c \in 1..Len(rf.pages) :
          Cardinality({ j \in RetryEventsOf({"complete", "error"}) :
                            rf_events[j].index = rf.pages[c].index })
              = IF rf.pc = "done" \/ (rf.pc = "collect" /\ c \notin rf.pending) THEN 1 ELSE 0
    /\ rf.pc = "done" =>
          LET finish == rf_events[Len(rf_events)]
          IN /\ Len(rf_events) = Len(rf.pages) + 2
             /\ RetryEventsOf({"complete", "error"}) = 2..(Len(rf_events) - 1)
             /\ finish.total = Len(rf.pages)
             /\ finish.total = rf_events[1].total
             /\ finish.completed = Cardinality(RetryEventsOf({"complete"}))
             /\ finish.failed = Cardinality(RetryEventsOf({"error"}))
             /\ finish.completed + finish.failed = finish.total
             /\ finish.success = (finish.failed = 0)

C20_Witness ==
    /\ rf.pc = "done"
    /\ Len(rf.pages) = 2
    /\ rf_events[2].event = "error"
    /\ rf_events[2].index = rf.pages[2].index
    /\ rf_events[3].event = "complete"
    /\ rf_events[4] = [event |-> "retry_finish", success |-> FALSE, total |-> 2,
                        completed |-> 1, failed |-> 1]

\* positions of the terminal events of content pages in the stream
ContentTerminals == { j \in 1..Len(events) : Terminal(events[j]) /\ events[j].phase = "content" }

\* C21: in parallel mode the progress event with status generating of every
\* content page precedes the first complete or error event of any content
\* page, in whatever order the pool workers finish
C21_ParallelProgressFirst ==
    high_concurrency =>
        \A j \in ContentTerminals :
            \A c \in 1..Len(other_pages) :
                \E i \in 1..(j - 1) : /\ Generating(events[i])
                                      /\ events[i].phase = "content"
                                      /\ events[i].index = other_pages[c].index

C21_Witness ==
    /\ high_concurrency
    /\ Len(other_pages) >= 2
    /\ ContentTerminals # {}
    /\ \E j \in ContentTerminals :
          /\ \A j2 \in ContentTerminals : j <= j2
          /\ events[j].index = other_pages[Len(other_pages)].index
    /\ \E c \in pending : call[c].st = "running"

\* C22: in serial mode the complete and error events of the content pages
\* arrive in ascending index order, and the call for a content page has not
\* started unless the outcome event of the content page before it is out
C22_SerialInOrder ==
    ~high_concurrency =>
        /\ \A a, b \in ContentTerminals : a < b => events[a].index < events[b].index
        /\ \A c \in 2..Len(other_pages) :
              call[other_pages[c].index].st # "none" =>
                  \E j \in ContentTerminals : events[j].index = other_pages[c - 1].index

C22_Witness ==
    /\ ~high_concurrency
    /\ pc = "done"
    /\ Len(other_pages) >= 2
    /\ Cardinality(ContentTerminals) = Len(other_pages)
    /\ \E a, b \in ContentTerminals :
          a < b /\ events[a].event = "error" /\ events[b].event = "complete"

\* C23: at most MAX_CONCURRENT calls of one pool are running at any instant,
\* however many pages were submitted, and while MAX_CONCURRENT are running
\* no further call starts before one of them has returned
C23_AtMostMaxConcurrent ==
    [][/\ pool.running <= MAX_CONCURRENT
       /\ pool'.running <= MAX_CONCURRENT
       /\ pool.running = MAX_CONCURRENT => pool'.queued = pool.queued]_vars

C23_Witness ==
    /\ pool.st = "open"
    /\ pool.running = MAX_CONCURRENT
    /\ pool.queued > 0
    /\ pool.returned > 0

\* C24: after the consumer has abandoned a generate_images stream no
\* _generate_single_image call starts that had not started before, in
\* serial and in parallel mode, and no event is emitted
C24_NothingStartsAfterAbandon ==
    [][pc = "abandoned" =>
          /\ events' = events
          /\ \A c \in CallIds :
                call[c].st \in {"none", "queued"} => call'[c].st = call[c].st]_vars

\* C25: a worker of the parallel mode that finishes after the consumer has
\* abandoned the stream has its outcome recorded in the task state: its
\* index is in generated if it succeeded, in failed if it failed
C25_AbandonedOutcomeRecorded ==
    [][\A c \in CallIds :
          (pc = "abandoned" /\ high_concurrency /\ c \in pending
             /\ call[c].st = "running" /\ call'[c].st = "returned") =>
              IF call'[c].success
              THEN call[c].page.index \in DOMAIN task_state'.generated
              ELSE call[c].page.index \in DOMAIN task_state'.failed]_vars

\* C26: no failure of a step of the pipeline leaves generate_images as an
\* exception: the generator is never ended by one, and a run that is over
\* has delivered its finish event
C26_NoExceptionReachesConsumer ==
    /\ pc # "raised"
    /\ pc \in {"done", "raised"} => (events # <<>> /\ LastEvent.event = "finish")

\* C27: a generate_images call with an empty page list creates no task state
\* and yields no finish event that reports success
C27_EmptyPagesRejected ==
    pages = <<>> =>
        /\ ~task_state.exists
        /\ \A j \in 1..Len(events) : events[j].event = "finish" => ~events[j].success

\* C28: once generate_images has partitioned its pages, the cover page is a
\* page of type cover if there is one and the first page otherwise, the
\* content pages are all the other pages in their original order, and every
\* input page is the cover page or exactly one of the content pages
C28_PartitionKeepsEveryPage ==
    (pc # "start" /\ pages # <<>>) =>
        /\ cover_page \in SeqRange(pages)
        /\ IF HasCover(pages) THEN cover_page.type = "cover" ELSE cover_page = pages[1]
        /\ SeqRange(other_pages) = SeqRange(pages) \ {cover_page}
        /\ Len(other_pages) = Len(pages) - 1
        /\ \A a, b \in 1..Len(other_pages) :
              a < b => \E i, j \in 1..Len(pages) :
                          i < j /\ pages[i] = other_pages[a] /\ pages[j] = other_pages[b]

\* C29: every _generate_single_image call made for a task that has user
\* reference images is given those compressed images, whichever entry point
\* makes it
C29_UserImagesAlwaysPassed ==
    \A c \in CallIds :
        (call[c].st # "none" /\ task_state.exists /\ task_state.user_images # NoUserImages) =>
            call[c].user_images = task_state.user_images

\* C30: two uploads of an original have the same object key only if they
\* have the same task_id and the same page index, for every task_id the
\* entry points take
C30_KeysUniquePerTaskAndIndex ==
    \A a, b \in uploads :
        a.key = b.key => (a.task_id = b.task_id /\ a.index = b.index)

\* the uploads of the log that went through
UploadsDone == { j \in 1..Len(one.log) : one.log[j].op = "upload" /\ one.log[j].out = "ok" }

\* C31: a call that succeeds for page index i of task t has uploaded the
\* original under t/i.png as image/png and the thumbnail under
\* t/thumb_i.jpg as image/jpeg
C31_UploadKeysAndTypes ==
    (one.st = "returned" /\ one.result.success) =>
        LET i == one.page.index
        IN /\ \E j \in UploadsDone :
                 /\ one.log[j].object_name = <<TaskId, "/", <<i, ".png">>>>
                 /\ one.log[j].content_type = "image/png"
           /\ \E j \in UploadsDone :
                 /\ one.log[j].object_name = <<TaskId, "/", "thumb_", <<i, ".jpg">>>>
                 /\ one.log[j].content_type = "image/jpeg"

\* page i of the outline has an image in the folder of the task
HasImage(i) == \E f \in ImageFiles(catalog.dir) : f.stem = i

\* C32: the status written by the scan is draft when no page has an image,
\* completed exactly when every page of the outline has one, partial otherwise
C32_StatusIsProjection ==
    (catalog.record /\ catalog.synced) =>
        catalog.status =
            IF \A i \in 1..catalog.page_count : ~HasImage(i) THEN "draft"
            ELSE IF \A i \in 1..catalog.page_count : HasImage(i) THEN "completed"
            ELSE "partial"

\* C33: the task state of a task made before a configuration update is
\* still what get_task_state returns through the service that
\* get_image_service hands out after the update
C33_TaskStateOutlivesConfigUpdate ==
    [][(service_instance = "none" /\ service_instance' # "none") =>
          /\ get_task_state(TaskId)' = get_task_state(TaskId)
          /\ get_task_state(OtherTaskId)' = get_task_state(OtherTaskId)]_vars

\* C34: cover_image of a task state is written only by the cover phase of
\* generate_images: no step of retry_single_image, regenerate_image or
\* retry_failed_images changes it, also when the page is the cover page
C34_CoverImageSingleWriter ==
    [][/\ (task_state.exists /\ task_state'.exists
             /\ task_state'.cover_image # task_state.cover_image) => pc = "cover_wait"
       /\ (task_state.exists /\ (retry' # retry \/ rf' # rf)) =>
             (task_state'.exists /\ task_state'.cover_image = task_state.cover_image)]_vars

C34_Witness ==
    /\ task_state.exists
    /\ task_state.cover_image = NoImage
    /\ rf.pc = "done"
    /\ \E j \in 1..Len(rf_events) :
          rf_events[j].event = "error" /\ rf_events[j].index = PartitionCover(pages).index
    /\ retry.st = "idle"
    /\ retry.result.success
    /\ retry.result.index = PartitionCover(pages).index
    /\ retry.result.index \in DOMAIN task_state.generated

\* C35: generate_images is finite: when the consumer keeps pulling and every
\* attempt returns or raises, the finish event is eventually emitted, in serial
\* and in parallel mode and whatever pages fail
C35_FinishEventually ==
    <>(pc = "done" /\ Len(events) > 0 /\ LastEvent.event = "finish")

C35_Witness ==
    /\ pc = "done"
    /\ LastEvent.event = "finish"
    /\ Len(pages) = MaxPages
    /\ \E j, l \in 1..Len(events) :
          events[j].event = "error" /\ events[l].event = "complete"

\* C36: the reference list handed to the image_api generator holds the user
\* images first, in their order, then the cover reference as last element when
\* there is one; with neither, no list is handed over
C36_ReferenceListOrder ==
    refs.st = "called" =>
       LET n == Len(refs.user_images)
           has == refs.reference_image # NoImage
           l == refs.reference_images
       IN /\ refs.none <=> (n = 0 /\ ~has)
          /\ ~refs.none =>
                /\ Len(l) = n + (IF has THEN 1 ELSE 0)
                /\ \A j \in 1..n : l[j] = refs.user_images[j]
                /\ has => l[Len(l)] = refs.reference_image

C36_Witness ==
    /\ refs.st = "called"
    /\ Len(refs.user_images) = 2
    /\ refs.user_images[1] # refs.user_images[2]
    /\ refs.reference_image # NoImage
    /\ refs.reference_image # refs.user_images[2]
    /\ refs.reference_images = << refs.user_images[1], refs.user_images[2], refs.reference_image >>

\* C37: the outline stream is keep-alive frames, each yielded while the
\* background task is not done, then exactly one terminal frame (complete or
\* error) and nothing more; an exception of the service gives the error frame
TerminalFrame(f) == f.event \in {"complete", "error"}

C38_GeneratedOnlyIfStored ==
    \A index \in store.generated \cup store.completed :
       ObjectName(TaskId, Filename(index)) \in store.objects

\* C39: two tasks served at once do not interfere: every image of a call
\* for a task is uploaded under a key whose prefix is that task's id and is
\* recorded in that task's state only, whatever the interleaving
KeyPrefix(key) == << key[1] >>

C39_TasksDoNotInterfere ==
    /\ \A u \in two.uploads : KeyPrefix(u.key) = u.task_id
    /\ \A r \in two.registry : r.task_id = two.slot[r.by].task_id
    /\ \A u, v \in two.uploads : u.key = v.key => u.task_id = v.task_id

\* what holds: the key and the registry entry come from the task_id
\* argument of the call, never from current_task_dir
C39_KeyFromArgument ==
    /\ \A u \in two.uploads : u.key = OriginalKey(u.task_id, u.index)
    /\ \A r \in two.registry : r.task_id = two.slot[r.by].task_id

LastEventOf(s) == s[Len(s)]
NoTaskCalls == { c \in CallIds : pc = "closed" /\ ~task_state.exists /\ call[c].st # "none" }

\* C40: retry_single_image, regenerate_image and retry_failed_images never
\* create a task state: for a task_id without one they generate the page with
\* no reference image, return its outcome, and get_task_state(task_id) still
\* returns nothing afterwards
C40_RetryNeverCreatesState ==
    [][/\ (~task_state.exists /\ task_state'.exists) => pc = "start"
       /\ \A c \in NoTaskCalls : call[c].ref = NoImage /\ call[c].user_images = NoUserImages
       /\ (retry.st = "running" /\ retry'.st = "idle" /\ retry.was = "no task") =>
             /\ retry'.result.success = call[RetryId].success
             /\ retry'.result.index = call[RetryId].page.index
             /\ get_task_state(TaskId)' = NoState
       /\ \A c \in CallIds :
             (~task_state.exists /\ c \in rf.pending /\ c \notin rf'.pending) =>
                /\ LastEventOf(rf_events').index = call[c].page.index
                /\ LastEventOf(rf_events').event = IF call[c].success THEN "complete" ELSE "error"
                /\ get_task_state(TaskId)' = NoState]_vars

C40_Witness ==
    /\ pc = "closed"
    /\ get_task_state(TaskId) = NoState
    /\ retry.st = "idle"
    /\ retry.was = "no task"
    /\ retry.result.success
    /\ rf.pc = "done"
    /\ rf.success_count > 0
    /\ rf.failed_count > 0
====
